---- MODULE Spec2Model ----
(***************************************************************************)
(* Model of examples/C-code/usb_midi_host_example/usb_midi_host_example.c  *)
(*                                                                         *)
(* Three contexts:                                                         *)
(*   core0  main(): start-up, then the polling loop tuh_task() /           *)
(*          send_next_note(); the TinyUSB callbacks tuh_midi_mount_cb,     *)
(*          tuh_midi_umount_cb and tuh_midi_rx_cb run inside tuh_task().   *)
(*   core1  core1_entry(): start-up, then the transfer loop.               *)
(*   irq    ws_callback(): falling-edge interrupt of the word clock.       *)
(*                                                                         *)
(* pc0 and pc1 name the statement each core executes next.  in_buf is      *)
(* written by the SPI exchange and never read by the program, so it is not *)
(* part of the state.  blink_led() only drives a GPIO and is left out.     *)
(***************************************************************************)
EXTENDS Integers, Sequences, FiniteSets

VARIABLES
    pc0,             \* core0: statement executed next
    pc1,             \* core1: statement executed next
    fifo0,           \* inter-core FIFO read by core0 (written by core1)
    fifo1,           \* inter-core FIFO read by core1 (written by core0)
    mutex_ready,     \* mutex_init(&data_mutex) has run
    data_mutex,      \* owner of data_mutex: "none", "core0" or "core1"
    sem_ready,       \* sem_init(&ws_semaphore, 0, 1) has run
    ws_semaphore,    \* permits of ws_semaphore
    irq_enabled,     \* the falling-edge interrupt of WS_PIN is enabled
    div,             \* static int div of ws_callback
    edges,           \* observer: falling edges delivered to ws_callback
    releases,        \* observer: edge numbers on which sem_release was called
    out_buf,         \* uint8_t out_buf[SPI_BUFFER_LEN]
    midi_dev_addr,   \* static uint8_t midi_dev_addr
    cb_dev_addr,     \* tuh_midi_rx_cb: parameter dev_addr
    cb_num_packets,  \* tuh_midi_rx_cb: parameter num_packets
    rx_stream,       \* chunks the driver holds for tuh_midi_stream_read
    buffer,          \* tuh_midi_rx_cb: buffer[0 .. bytes_read-1]
    message,         \* send_next_note: static uint8_t message[6]
    start_ms,        \* send_next_note: static uint32_t start_ms
    millis,          \* board_millis()
    nwritten,        \* send_next_note: result of the last tuh_midi_stream_write
    nsent,           \* observer: ticks whose stream write returned non-zero
    last_emit,       \* observer: board_millis() at the last such tick, -1 before the first
    pending,         \* observer: chunk stored by the producer since the last exchange
    xfers,           \* observer: SPI exchanges started
    lost             \* observer: chunk overwritten in out_buf before any exchange

vars == <<pc0, pc1, fifo0, fifo1, mutex_ready, data_mutex, sem_ready,
          ws_semaphore, irq_enabled, div, edges, releases, out_buf,
          midi_dev_addr, cb_dev_addr, cb_num_packets, rx_stream, buffer,
          message, start_ms, millis, nwritten, nsent, last_emit, pending,
          xfers, lost>>

coreVars  == <<pc0, pc1, fifo0, fifo1, mutex_ready, sem_ready, irq_enabled>>
clockVars == <<div, edges, releases, ws_semaphore>>
rxVars    == <<cb_dev_addr, cb_num_packets, rx_stream, buffer>>
noteVars  == <<message, start_ms, millis, nwritten, nsent, last_emit>>
frameVars == <<out_buf, data_mutex, pending, xfers, lost>>

-----------------------------------------------------------------------------
(* Program constants *)

SPI_BUFFER_LEN == 64
HeaderLen      == 3
Divisor        == 32
SemMaxPermits  == 1
Fingerprint0   == 202
Fingerprint1   == 254
FirstNote      == 91
LastNote       == 95
IntervalMs     == 1000
MessageLen     == 6
Core1Hello     == 42
Core0Reply     == 43
RxBufferLen    == 48

MaxPayload == SPI_BUFFER_LEN - HeaderLen

(* Bounds of the model *)

MaxEdges   == 100
MaxChunks  == 2
MaxDevAddr == 2
MaxCables  == 1
MaxTicks   == 12
TickMs     == 500

DevAddrs == 1..MaxDevAddr

U8(x) == x % 256

(* The chunks tuh_midi_stream_read may deliver.  Lengths: a short message,   *)
(* a full buffer[48], and the two lengths around max_payload that the       *)
(* oversize test of tuh_midi_rx_cb tells apart.  The i-th byte of a chunk   *)
(* depends on its position and on the chunk, so chunks of different lengths *)
(* differ in every byte.                                                    *)
ChunkLens == {2, RxBufferLen, MaxPayload, MaxPayload + 1}
MkChunk(n, f) == [i \in 1..n |-> U8(f + i)]
Chunks == {MkChunk(n, n) : n \in ChunkLens}

-----------------------------------------------------------------------------
(* Initial state: the statics and globals as the C start-up code leaves them *)

InitMessage == <<144, 95, 0, 144, 91, 127>>

Init ==
    /\ pc0 = "mutex_init"
    /\ pc1 = "off"
    /\ fifo0 = <<>>
    /\ fifo1 = <<>>
    /\ mutex_ready = FALSE
    /\ data_mutex = "none"
    /\ sem_ready = FALSE
    /\ ws_semaphore = 0
    /\ irq_enabled = FALSE
    /\ div = Divisor
    /\ edges = 0
    /\ releases = {}
    /\ out_buf = [i \in 0..(SPI_BUFFER_LEN - 1) |-> 0]
    /\ midi_dev_addr = 0
    /\ cb_dev_addr = 0
    /\ cb_num_packets = 0
    /\ rx_stream = 0
    /\ buffer = <<>>
    /\ message = InitMessage
    /\ start_ms = 0
    /\ millis = 0
    /\ nwritten = 0
    /\ nsent = 0
    /\ last_emit = -1
    /\ pending = <<>>
    /\ xfers = 0
    /\ lost = <<>>

-----------------------------------------------------------------------------
(* core0: main() before the event loop *)

MainMutexInit ==
    /\ pc0 = "mutex_init"
    /\ mutex_ready' = TRUE
    /\ data_mutex' = "none"
    /\ pc0' = "launch_core1"
    /\ UNCHANGED <<pc1, fifo0, fifo1, sem_ready, irq_enabled, out_buf, pending,
                   xfers, lost, clockVars, rxVars, noteVars, midi_dev_addr>>

MainLaunchCore1 ==
    /\ pc0 = "launch_core1"
    /\ pc1 = "off"
    /\ pc1' = "fifo_push"
    /\ pc0' = "fifo_pop"
    /\ UNCHANGED <<fifo0, fifo1, mutex_ready, sem_ready, irq_enabled,
                   frameVars, clockVars, rxVars, noteVars, midi_dev_addr>>

MainFifoPop ==
    /\ pc0 = "fifo_pop"
    /\ fifo0 # <<>>
    /\ fifo0' = Tail(fifo0)
    /\ pc0' = IF Head(fifo0) = Core1Hello THEN "fifo_push" ELSE "tuh_task"
    /\ UNCHANGED <<pc1, fifo1, mutex_ready, sem_ready, irq_enabled,
                   frameVars, clockVars, rxVars, noteVars, midi_dev_addr>>

MainFifoPush ==
    /\ pc0 = "fifo_push"
    /\ fifo1' = Append(fifo1, Core0Reply)
    /\ pc0' = "tuh_task"
    /\ UNCHANGED <<pc1, fifo0, mutex_ready, sem_ready, irq_enabled,
                   frameVars, clockVars, rxVars, noteVars, midi_dev_addr>>

-----------------------------------------------------------------------------
(* core1: core1_entry() before the transfer loop *)

Core1FifoPush ==
    /\ pc1 = "fifo_push"
    /\ fifo0' = Append(fifo0, Core1Hello)
    /\ pc1' = "fifo_pop"
    /\ UNCHANGED <<pc0, fifo1, mutex_ready, sem_ready, irq_enabled,
                   frameVars, clockVars, rxVars, noteVars, midi_dev_addr>>

\* mutant: core1 goes on without waiting for the reply of core0
Core1FifoPopNoWait ==
    /\ pc1 = "fifo_pop"
    /\ fifo1' = IF fifo1 = <<>> THEN fifo1 ELSE Tail(fifo1)
    /\ pc1' = "sem_init"
    /\ UNCHANGED <<pc0, fifo0, mutex_ready, sem_ready, irq_enabled,
                   frameVars, clockVars, rxVars, noteVars, midi_dev_addr>>

Core1FifoPop ==
    /\ pc1 = "fifo_pop"
    /\ fifo1 # <<>>
    /\ fifo1' = Tail(fifo1)
    /\ pc1' = "sem_init"
    /\ UNCHANGED <<pc0, fifo0, mutex_ready, sem_ready, irq_enabled,
                   frameVars, clockVars, rxVars, noteVars, midi_dev_addr>>

Core1SemInit ==
    /\ pc1 = "sem_init"
    /\ sem_ready' = TRUE
    /\ ws_semaphore' = 0
    /\ pc1' = "irq_enable"
    /\ UNCHANGED <<pc0, fifo0, fifo1, mutex_ready, irq_enabled, frameVars,
                   div, edges, releases, rxVars, noteVars, midi_dev_addr>>

Core1IrqEnable ==
    /\ pc1 = "irq_enable"
    /\ irq_enabled' = TRUE
    /\ pc1' = "fingerprint"
    /\ UNCHANGED <<pc0, fifo0, fifo1, mutex_ready, sem_ready, frameVars,
                   clockVars, rxVars, noteVars, midi_dev_addr>>

Core1Fingerprint ==
    /\ pc1 = "fingerprint"
    /\ out_buf' = [out_buf EXCEPT ![0] = Fingerprint0, ![1] = Fingerprint1]
    /\ pc1' = "sem_acquire"
    /\ UNCHANGED <<pc0, fifo0, fifo1, mutex_ready, sem_ready, irq_enabled,
                   data_mutex, pending, xfers, lost, clockVars, rxVars, noteVars,
                   midi_dev_addr>>

-----------------------------------------------------------------------------
(* irq: ws_callback(), the clock decimator *)

\* mutant: if (div < 0)
WsReleasesLate(d) == d - 1 < 0

\* div--; if (div <= 0): does this edge release?
WsReleases(d) == d - 1 <= 0

\* div after the call
DivAfterEdge(d) == IF WsReleases(d) THEN Divisor ELSE d - 1

\* mutant: a counting semaphore without a maximum
SemReleaseCounting(p) == p + 1

\* sem_release on a semaphore of max_permits 1: no effect at the maximum
SemRelease(p) == IF p < SemMaxPermits THEN p + 1 ELSE p

WsCallback ==
    /\ irq_enabled
    /\ div' = DivAfterEdge(div)
    /\ ws_semaphore' = IF WsReleases(div) THEN SemRelease(ws_semaphore)
                                         ELSE ws_semaphore
    /\ UNCHANGED <<coreVars, frameVars, rxVars, noteVars, midi_dev_addr>>

\* an edge, the observers off
WsEdge ==
    /\ WsCallback
    /\ UNCHANGED <<edges, releases>>

\* an edge, numbered by the observers
WsEdgeCounted ==
    /\ edges < MaxEdges
    /\ WsCallback
    /\ edges' = edges + 1
    /\ releases' = IF WsReleases(div) THEN releases \cup {edges + 1}
                                      ELSE releases

-----------------------------------------------------------------------------
(* core1: the transfer loop of core1_entry() *)

\* mutex_enter_blocking returns once the mutex has no owner
MutexFree(owner) == owner = "none"

\* mutant: the loop does not wait for a permit
SemAvailableAlways(p) == TRUE

\* sem_acquire_blocking returns once a permit is available
SemAvailable(p) == p > 0

Core1SemAcquire ==
    /\ pc1 = "sem_acquire"
    /\ SemAvailable(ws_semaphore)
    /\ ws_semaphore' = ws_semaphore - 1
    /\ pc1' = "mutex_enter"
    /\ UNCHANGED <<pc0, fifo0, fifo1, mutex_ready, sem_ready, irq_enabled,
                   frameVars, div, edges, releases, rxVars, noteVars,
                   midi_dev_addr>>

Core1MutexEnter ==
    /\ pc1 = "mutex_enter"
    /\ MutexFree(data_mutex)
    /\ data_mutex' = "core1"
    /\ pc1' = "spi_exchange"
    /\ UNCHANGED <<pc0, fifo0, fifo1, mutex_ready, sem_ready, irq_enabled,
                   out_buf, pending, xfers, lost, clockVars, rxVars, noteVars,
                   midi_dev_addr>>

\* gpio_put(SPI_CS, 0); spi_write_read_blocking(out_buf, in_buf, 64);
\* gpio_put(SPI_CS, 1): the frame sent is out_buf as it stands
Core1Spi ==
    /\ pc1 = "spi_exchange"
    /\ pending' = <<>>
    /\ pc1' = "reset_len"
    /\ UNCHANGED <<pc0, fifo0, fifo1, mutex_ready, sem_ready, irq_enabled,
                   out_buf, data_mutex, clockVars, rxVars, noteVars,
                   midi_dev_addr>>

Core1SpiExchange ==
    /\ Core1Spi
    /\ UNCHANGED <<xfers, lost>>

Core1SpiExchangeCounted ==
    /\ Core1Spi
    /\ xfers' = xfers + 1
    /\ UNCHANGED lost

\* the same exchange, closing the window in which chunks are replaced
Core1SpiExchangeTracked ==
    /\ Core1Spi
    /\ lost' = <<>>
    /\ UNCHANGED xfers

\* mutant: the reset of the length byte is missing
ResetLenDropped(buf) == buf

\* mutant: out_buf[0] = 0x00
ResetLenWrongIndex(buf) == [buf EXCEPT ![0] = 0]

\* mutant: the payload region is cleared with the length
ResetLenClearsPayload(buf) ==
    [i \in DOMAIN buf |-> IF i >= HeaderLen - 1 THEN 0 ELSE buf[i]]

\* out_buf[2] = 0x00
ResetLen(buf) == [buf EXCEPT ![2] = 0]

Core1ResetLen ==
    /\ pc1 = "reset_len"
    /\ out_buf' = ResetLen(out_buf)
    /\ pc1' = "mutex_exit"
    /\ UNCHANGED <<pc0, fifo0, fifo1, mutex_ready, sem_ready, irq_enabled,
                   data_mutex, pending, xfers, lost, clockVars, rxVars, noteVars,
                   midi_dev_addr>>

\* mutant: mutex_exit is missing from the transfer loop
Core1MutexExitMissing ==
    /\ pc1 = "mutex_exit"
    /\ pc1' = "sem_acquire"
    /\ UNCHANGED <<pc0, fifo0, fifo1, mutex_ready, sem_ready, irq_enabled,
                   frameVars, clockVars, rxVars, noteVars, midi_dev_addr>>

Core1MutexExit ==
    /\ pc1 = "mutex_exit"
    /\ data_mutex' = "none"
    /\ pc1' = "sem_acquire"
    /\ UNCHANGED <<pc0, fifo0, fifo1, mutex_ready, sem_ready, irq_enabled,
                   out_buf, pending, xfers, lost, clockVars, rxVars, noteVars,
                   midi_dev_addr>>

-----------------------------------------------------------------------------
(* core0: tuh_task() and the callbacks it runs *)

\* mutant: a mount always replaces the active device
MountCbReplace(addr, dev) == dev

\* tuh_midi_mount_cb: midi_dev_addr after a mount of dev
MountCb(addr, dev) == IF addr = 0 THEN dev ELSE addr

\* tuh_midi_umount_cb: midi_dev_addr after an unmount of dev
UmountCb(addr, dev) == IF dev = addr THEN 0 ELSE addr

\* the host stack reports a mounted device: tuh_midi_mount_cb(dev, ...)
TuhTaskMount ==
    /\ pc0 = "tuh_task"
    /\ \E dev \in DevAddrs : cb_dev_addr' = dev
    /\ pc0' = "mount_cb"
    /\ UNCHANGED <<pc1, fifo0, fifo1, mutex_ready, sem_ready, irq_enabled,
                   frameVars, clockVars, cb_num_packets, rx_stream, buffer,
                   noteVars, midi_dev_addr>>

MountCbRun ==
    /\ pc0 = "mount_cb"
    /\ midi_dev_addr' = MountCb(midi_dev_addr, cb_dev_addr)
    /\ pc0' = "mount_ret"
    /\ UNCHANGED <<pc1, fifo0, fifo1, mutex_ready, sem_ready, irq_enabled,
                   frameVars, clockVars, rxVars, noteVars>>

\* the host stack reports a removed device: tuh_midi_umount_cb(dev, instance)
TuhTaskUmount ==
    /\ pc0 = "tuh_task"
    /\ \E dev \in DevAddrs : cb_dev_addr' = dev
    /\ pc0' = "umount_cb"
    /\ UNCHANGED <<pc1, fifo0, fifo1, mutex_ready, sem_ready, irq_enabled,
                   frameVars, clockVars, cb_num_packets, rx_stream, buffer,
                   noteVars, midi_dev_addr>>

UmountCbRun ==
    /\ pc0 = "umount_cb"
    /\ midi_dev_addr' = UmountCb(midi_dev_addr, cb_dev_addr)
    /\ pc0' = "umount_ret"
    /\ UNCHANGED <<pc1, fifo0, fifo1, mutex_ready, sem_ready, irq_enabled,
                   frameVars, clockVars, rxVars, noteVars>>

\* a callback returns to tuh_task(): its parameters and locals go out of scope
CbReturn ==
    /\ pc0 \in {"mount_ret", "umount_ret", "rx_ret"}
    /\ pc0' = "tuh_task"
    /\ cb_dev_addr' = 0
    /\ cb_num_packets' = 0
    /\ buffer' = <<>>
    /\ UNCHANGED <<pc1, fifo0, fifo1, mutex_ready, sem_ready, irq_enabled,
                   frameVars, clockVars, rx_stream, noteVars, midi_dev_addr>>

\* an IN transfer of device dev completed: the driver holds n chunks and
\* calls tuh_midi_rx_cb(dev, num_packets)
TuhTaskRx ==
    /\ pc0 = "tuh_task"
    /\ \E dev \in DevAddrs, np \in {0, 1}, n \in 1..MaxChunks :
          /\ cb_dev_addr' = dev
          /\ cb_num_packets' = np
          /\ rx_stream' = n
    /\ pc0' = "rx_cb"
    /\ UNCHANGED <<pc1, fifo0, fifo1, mutex_ready, sem_ready, irq_enabled,
                   frameVars, clockVars, buffer, noteVars, midi_dev_addr>>

\* tuh_task() returns to the main loop
TuhTaskReturn ==
    /\ pc0 = "tuh_task"
    /\ pc0' = "send_next_note"
    /\ UNCHANGED <<pc1, fifo0, fifo1, mutex_ready, sem_ready, irq_enabled,
                   frameVars, clockVars, rxVars, noteVars, midi_dev_addr>>

\* mutant: the device address is not compared
RxAcceptedAnyDevice(addr, dev, np) == np # 0

\* if (midi_dev_addr == dev_addr) { if (num_packets != 0) { ...
RxAccepted(addr, dev, np) == addr = dev /\ np # 0

RxCbEnter ==
    /\ pc0 = "rx_cb"
    /\ RxAccepted(midi_dev_addr, cb_dev_addr, cb_num_packets)
    /\ pc0' = "rx_read"
    /\ UNCHANGED <<pc1, fifo0, fifo1, mutex_ready, sem_ready, irq_enabled,
                   frameVars, clockVars, rxVars, noteVars, midi_dev_addr>>

RxCbIgnore ==
    /\ pc0 = "rx_cb"
    /\ ~RxAccepted(midi_dev_addr, cb_dev_addr, cb_num_packets)
    /\ pc0' = "rx_ret"
    /\ UNCHANGED <<pc1, fifo0, fifo1, mutex_ready, sem_ready, irq_enabled,
                   frameVars, clockVars, rxVars, noteVars, midi_dev_addr>>

\* mutant: if (bytes_read > SPI_BUFFER_LEN - 2)
OversizeOffByOne(n) == n > SPI_BUFFER_LEN - HeaderLen + 1

\* mutant: the header is not subtracted from the capacity
OversizeWholeBuffer(n) == n > SPI_BUFFER_LEN

\* if (bytes_read > SPI_BUFFER_LEN - 3)
Oversize(n) == n > SPI_BUFFER_LEN - HeaderLen

\* tuh_midi_stream_read returned 0: return
RxReadEmpty ==
    /\ pc0 = "rx_read"
    /\ rx_stream = 0
    /\ pc0' = "rx_ret"
    /\ UNCHANGED <<pc1, fifo0, fifo1, mutex_ready, sem_ready, irq_enabled,
                   frameVars, clockVars, rxVars, noteVars, midi_dev_addr>>

\* tuh_midi_stream_read returned a chunk: too long, or on to the store
RxReadChunk ==
    /\ pc0 = "rx_read"
    /\ rx_stream > 0
    /\ rx_stream' = rx_stream - 1
    /\ \E c \in Chunks : buffer' = c
    /\ pc0' = IF Oversize(Len(buffer')) THEN "rx_read" ELSE "rx_lock"
    /\ UNCHANGED <<pc1, fifo0, fifo1, mutex_ready, sem_ready, irq_enabled,
                   frameVars, clockVars, cb_dev_addr, cb_num_packets,
                   noteVars, midi_dev_addr>>

\* mutant: the producer goes on without taking data_mutex
RxLockSkipped ==
    /\ pc0 = "rx_lock"
    /\ pc0' = "rx_store_len"
    /\ UNCHANGED <<pc1, fifo0, fifo1, mutex_ready, sem_ready, irq_enabled,
                   frameVars, clockVars, rxVars, noteVars, midi_dev_addr>>

RxLock ==
    /\ pc0 = "rx_lock"
    /\ MutexFree(data_mutex)
    /\ data_mutex' = "core0"
    /\ pc0' = "rx_store_len"
    /\ UNCHANGED <<pc1, fifo0, fifo1, mutex_ready, sem_ready, irq_enabled,
                   out_buf, pending, xfers, lost, clockVars, rxVars, noteVars,
                   midi_dev_addr>>

\* mutant: if (out_buf[2] == 0) out_buf[2] = (uint8_t) bytes_read
StoreLenKeepsFirst(buf, n) ==
    IF buf[2] # 0 THEN buf ELSE [buf EXCEPT ![2] = U8(n)]

\* out_buf[2] = (uint8_t) bytes_read
StoreLen(buf, n) == [buf EXCEPT ![2] = U8(n)]

RxStore ==
    /\ pc0 = "rx_store_len"
    /\ out_buf' = StoreLen(out_buf, Len(buffer))
    /\ pending' = buffer
    /\ pc0' = "rx_memcpy"
    /\ UNCHANGED <<pc1, fifo0, fifo1, mutex_ready, sem_ready, irq_enabled,
                   data_mutex, xfers, clockVars, rxVars, noteVars,
                   midi_dev_addr>>

RxStoreLen ==
    /\ RxStore
    /\ UNCHANGED lost

\* the same store, remembering the chunk it replaces when no exchange has
\* carried that chunk yet
RxStoreLenTracked ==
    /\ RxStore
    /\ lost' = IF pending # <<>> THEN pending ELSE lost

\* mutant: memcpy(out_buf + 2, buffer, bytes_read)
MemcpyIntoHeader(buf, src) ==
    [i \in DOMAIN buf |->
        IF i >= HeaderLen - 1 /\ i < HeaderLen - 1 + Len(src)
        THEN src[i - HeaderLen + 2] ELSE buf[i]]

\* memcpy(out_buf + 3, buffer, bytes_read)
Memcpy(buf, src) ==
    [i \in DOMAIN buf |->
        IF i >= HeaderLen /\ i < HeaderLen + Len(src)
        THEN src[i - HeaderLen + 1] ELSE buf[i]]

RxMemcpy ==
    /\ pc0 = "rx_memcpy"
    /\ out_buf' = Memcpy(out_buf, buffer)
    /\ pc0' = "rx_unlock"
    /\ UNCHANGED <<pc1, fifo0, fifo1, mutex_ready, sem_ready, irq_enabled,
                   data_mutex, pending, xfers, lost, clockVars, rxVars, noteVars,
                   midi_dev_addr>>

\* mutant: the producer returns to the read without mutex_exit(&data_mutex)
RxUnlockMissing ==
    /\ pc0 = "rx_unlock"
    /\ pc0' = "rx_read"
    /\ UNCHANGED <<pc1, fifo0, fifo1, mutex_ready, sem_ready, irq_enabled,
                   frameVars, clockVars, rxVars, noteVars, midi_dev_addr>>

RxUnlock ==
    /\ pc0 = "rx_unlock"
    /\ data_mutex' = "none"
    /\ pc0' = "rx_read"
    /\ UNCHANGED <<pc1, fifo0, fifo1, mutex_ready, sem_ready, irq_enabled,
                   out_buf, pending, xfers, lost, clockVars, rxVars, noteVars,
                   midi_dev_addr>>

-----------------------------------------------------------------------------
(* core0: send_next_note(connected) *)

\* mutant: if (message[k] >= last_note)
NextNoteOfEarlyWrap(n) == IF U8(n + 1) >= LastNote THEN FirstNote ELSE U8(n + 1)

\* ++message[k]; if (message[k] > last_note) message[k] = first_note;
NextNoteOf(n) == IF U8(n + 1) > LastNote THEN FirstNote ELSE U8(n + 1)

\* mutant: ++message[1] and its wrap are missing
AdvanceNoteOnOnly(msg) == [msg EXCEPT ![5] = NextNoteOf(msg[5])]

\* message[1] and message[4] of the C array are message[2] and message[5] here
AdvanceNotes(msg) ==
    [msg EXCEPT ![2] = NextNoteOf(msg[2]), ![5] = NextNoteOf(msg[5])]

\* if (board_millis() - start_ms < interval_ms) return;
\* The operands are uint32_t.  The model's clock stays far below 2^32, where
\* the unsigned difference of now < start wraps to a value above interval_ms.
NotYet(now, start) == now >= start /\ now - start < IntervalMs

\* mutant: the result of the write is not tested
AfterWriteAlways(msg, w) == AdvanceNotes(msg)

\* message after the write returned w
AfterWrite(msg, w) == IF w # 0 THEN AdvanceNotes(msg) ELSE msg

SendNextNote ==
    /\ pc0 = "send_next_note"
    /\ \E configured \in BOOLEAN, cables \in 0..MaxCables, w \in {0, MessageLen} :
          LET connected == midi_dev_addr # 0 /\ configured IN
          IF ~connected \/ cables < 1 \/ NotYet(millis, start_ms)
          THEN UNCHANGED <<message, start_ms, nwritten, nsent, last_emit>>
          ELSE /\ start_ms' = start_ms + IntervalMs
               /\ nwritten' = w
               /\ message' = AfterWrite(message, w)
               /\ nsent' = IF w # 0 THEN nsent + 1 ELSE nsent
               /\ last_emit' = IF w # 0 THEN millis ELSE last_emit
    /\ pc0' = "tuh_task"
    /\ UNCHANGED <<pc1, fifo0, fifo1, mutex_ready, sem_ready, irq_enabled,
                   frameVars, clockVars, rxVars, millis, midi_dev_addr>>

\* the monotonic clock behind board_millis() advances
Tick ==
    /\ millis + TickMs <= MaxTicks * TickMs
    /\ millis' = millis + TickMs
    /\ UNCHANGED <<coreVars, frameVars, clockVars, rxVars, message, start_ms,
                   nwritten, nsent, last_emit, midi_dev_addr>>

-----------------------------------------------------------------------------
(* Specifications *)

Boot ==
    \/ MainMutexInit
    \/ MainLaunchCore1
    \/ MainFifoPop
    \/ MainFifoPush
    \/ Core1FifoPush
    \/ Core1FifoPop
    \/ Core1SemInit
    \/ Core1IrqEnable
    \/ Core1Fingerprint

\* The frame hand-off: both cores, the edge interrupt and every USB event.
\* The millisecond clock stands still, so send_next_note returns early.
Next ==
    \/ Boot
    \/ WsEdge
    \/ Core1SemAcquire
    \/ Core1MutexEnter
    \/ Core1SpiExchange
    \/ Core1ResetLen
    \/ Core1MutexExit
    \/ TuhTaskMount
    \/ MountCbRun
    \/ TuhTaskUmount
    \/ UmountCbRun
    \/ CbReturn
    \/ TuhTaskRx
    \/ TuhTaskReturn
    \/ RxCbEnter
    \/ RxCbIgnore
    \/ RxReadEmpty
    \/ RxReadChunk
    \/ RxLock
    \/ RxStoreLen
    \/ RxMemcpy
    \/ RxUnlock
    \/ SendNextNote

Spec == Init /\ [][Next]_vars

\* The environment of the hand-off narrowed to one device address and to
\* chunks that fit the frame.
OneDevice ==
    /\ midi_dev_addr <= 1
    /\ cb_dev_addr <= 1
    /\ Len(buffer) <= RxBufferLen

\* The frame hand-off with one device, remembering the chunk a store
\* replaces before any exchange carried it.
NextHandoff ==
    \/ Boot
    \/ WsEdge
    \/ Core1SemAcquire
    \/ Core1MutexEnter
    \/ Core1SpiExchangeTracked
    \/ Core1ResetLen
    \/ Core1MutexExit
    \/ (TuhTaskMount /\ OneDevice')
    \/ MountCbRun
    \/ TuhTaskUmount
    \/ UmountCbRun
    \/ CbReturn
    \/ (TuhTaskRx /\ OneDevice')
    \/ TuhTaskReturn
    \/ RxCbEnter
    \/ RxCbIgnore
    \/ RxReadEmpty
    \/ (RxReadChunk /\ OneDevice')
    \/ RxLock
    \/ RxStoreLenTracked
    \/ RxMemcpy
    \/ RxUnlock
    \/ SendNextNote

SpecHandoff == Init /\ [][NextHandoff]_vars

\* The environment narrowed further for the progress properties: one device,
\* two-byte chunks, one chunk waiting in the stream.
ShortReads ==
    /\ OneDevice
    /\ Len(buffer) <= 2
    /\ rx_stream <= 1

NextLive ==
    \/ Boot
    \/ WsEdge
    \/ Core1SemAcquire
    \/ Core1MutexEnter
    \/ Core1SpiExchange
    \/ Core1ResetLen
    \/ Core1MutexExit
    \/ (TuhTaskMount /\ ShortReads')
    \/ MountCbRun
    \/ TuhTaskUmount
    \/ UmountCbRun
    \/ CbReturn
    \/ (TuhTaskRx /\ ShortReads')
    \/ TuhTaskReturn
    \/ RxCbEnter
    \/ RxCbIgnore
    \/ RxReadEmpty
    \/ (RxReadChunk /\ ShortReads')
    \/ RxLock
    \/ RxStoreLen
    \/ RxMemcpy
    \/ RxUnlock
    \/ SendNextNote

\* Scheduling: each core executes its next instruction when it has one, the
\* clock edges keep arriving, and a context spinning on data_mutex gets it
\* if it is free again and again.
FairLive ==
    /\ WF_vars(NextLive /\ pc0' # pc0)
    /\ WF_vars(NextLive /\ pc1' # pc1)
    /\ WF_vars(WsEdge)
    /\ SF_vars(RxLock)
    /\ SF_vars(Core1MutexEnter)

SpecFair == Init /\ [][NextLive]_vars /\ FairLive

\* The clock decimator and the transfer loop with the edges numbered; no USB
\* event arrives, the main loop polls.
NextClock ==
    \/ Boot
    \/ WsEdgeCounted
    \/ Core1SemAcquire
    \/ Core1MutexEnter
    \/ Core1SpiExchangeCounted
    \/ Core1ResetLen
    \/ Core1MutexExit
    \/ TuhTaskReturn
    \/ SendNextNote

SpecClock == Init /\ [][NextClock]_vars

\* The connection state and the note sequencer under a running clock; no
\* clock edge and no inbound data arrive.
NextNote ==
    \/ Boot
    \/ TuhTaskMount
    \/ MountCbRun
    \/ TuhTaskUmount
    \/ UmountCbRun
    \/ CbReturn
    \/ TuhTaskReturn
    \/ SendNextNote
    \/ Tick

SpecNote == Init /\ [][NextNote]_vars

-----------------------------------------------------------------------------
(* Positions of the two contexts relative to data_mutex *)

\* core0 is between mutex_enter_blocking and mutex_exit of tuh_midi_rx_cb
Holds0 == pc0 \in {"rx_store_len", "rx_memcpy", "rx_unlock"}

\* core1 is between mutex_enter_blocking and mutex_exit of the transfer loop
Holds1 == pc1 \in {"spi_exchange", "reset_len", "mutex_exit"}

\* the length byte or the payload region of out_buf is written in this step
FrameWritten ==
    /\ out_buf' # out_buf
    /\ \E i \in (HeaderLen - 1)..(SPI_BUFFER_LEN - 1) : out_buf'[i] # out_buf[i]

-----------------------------------------------------------------------------
(* C1: at most one of core0 and core1 is inside its data_mutex section; a   *)
(* context at its length store, copy, SPI exchange or length reset owns     *)
(* data_mutex; every step that changes out_buf[2..63] is taken by the owner *)
(* of data_mutex; a producer copy never coincides with an SPI exchange.     *)
C1_Inv ==
    /\ ~(Holds0 /\ Holds1)
    /\ (Holds0 => data_mutex = "core0")
    /\ (Holds1 => data_mutex = "core1")
    /\ ~(pc0 \in {"rx_store_len", "rx_memcpy"} /\ pc1 = "spi_exchange")

C1_MutualExclusion ==
    [][/\ C1_Inv
       /\ C1_Inv'
       /\ FrameWritten =>
            /\ data_mutex # "none"
            /\ data_mutex' = data_mutex
            /\ (data_mutex = "core0" => pc0' # pc0)
            /\ (data_mutex = "core1" => pc1' # pc1)]_vars

\* the producer waits for data_mutex while core1 is in its SPI exchange
C1_Witness == pc1 = "spi_exchange" /\ pc0 = "rx_lock" /\ data_mutex = "core1"

(* C2: when the SPI exchange starts after a producer write of P with no     *)
(* other write in between, the frame has byte 2 = len(P) and bytes          *)
(* 3..3+len(P)-1 = P.                                                       *)
C2_WriteThenTransfer ==
    (pc1 = "spi_exchange" /\ pending # <<>>) =>
        /\ Len(pending) <= MaxPayload
        /\ out_buf[2] = Len(pending)
        /\ \A i \in 1..Len(pending) : out_buf[HeaderLen + i - 1] = pending[i]

\* the exchange starts on a frame carrying a full 48-byte read
C2_Witness ==
    pc1 = "spi_exchange" /\ Len(pending) = RxBufferLen /\ out_buf[2] = RxBufferLen

(* C3: a chunk longer than max_payload is skipped: the step that reads it   *)
(* leaves out_buf and data_mutex as they were and goes on to the next read  *)
(* without entering the mutex.                                              *)
OversizeRead ==
    /\ pc0 = "rx_read"
    /\ rx_stream' = rx_stream - 1
    /\ Len(buffer') > MaxPayload

C3_OversizeSkipped ==
    [][OversizeRead =>
         /\ out_buf' = out_buf
         /\ data_mutex' = data_mutex
         /\ pending' = pending
         /\ pc0' = "rx_read"]_vars

\* an oversize chunk was read and skipped while an earlier payload is in the frame
C3_Witness ==
    /\ pc0 = "rx_read"
    /\ Len(buffer) > MaxPayload
    /\ data_mutex = "none"
    /\ out_buf[2] = Len(pending)
    /\ pending # <<>>

(* C4: with no producer write since the last exchange the length byte is 0  *)
(* in every state but the one between the exchange and the reset; the reset *)
(* is done when core1 reaches mutex_exit, still owning data_mutex; an       *)
(* exchange that starts with no write since the previous one sends 0.       *)
C4_LengthReset ==
    /\ (pending = <<>> /\ pc1 # "reset_len") => out_buf[2] = 0
    /\ pc1 = "mutex_exit" => (out_buf[2] = 0 /\ data_mutex = "core1")

\* a payload was sent and the loop is back waiting with the length byte 0
C4_Witness ==
    /\ pc1 = "sem_acquire"
    /\ pending = <<>>
    /\ out_buf[HeaderLen] # 0
    /\ out_buf[2] = 0

(* C8: tuh_midi_rx_cb called for an address other than midi_dev_addr, or    *)
(* with num_packets = 0, returns at once: nothing is read from the stream,  *)
(* data_mutex, out_buf and midi_dev_addr stay as they were.                 *)
RxIgnoredCall ==
    /\ pc0 = "rx_cb"
    /\ pc0' # pc0
    /\ (cb_dev_addr # midi_dev_addr \/ cb_num_packets = 0)

C8_ForeignDataIgnored ==
    [][RxIgnoredCall =>
         /\ pc0' = "rx_ret"
         /\ UNCHANGED <<rx_stream, buffer, data_mutex, out_buf, pending,
                        midi_dev_addr>>]_vars

\* the callback for a device other than the active one returns, stream unread
C8_Witness ==
    /\ pc0 = "rx_ret"
    /\ midi_dev_addr # 0
    /\ cb_dev_addr # midi_dev_addr
    /\ cb_num_packets # 0
    /\ rx_stream > 0
    /\ buffer = <<>>

(* C5: the edges on which ws_callback calls sem_release are exactly the     *)
(* multiples of 32; div is 32 after a releasing edge and within 0..32       *)
(* between calls.                                                           *)
C5_Decimator ==
    /\ releases = {e \in 1..edges : e % Divisor = 0}
    /\ div \in 0..Divisor
    /\ (edges \in releases => div = Divisor)
    /\ div = Divisor - (edges % Divisor)

\* the third release, on edge 96
C5_Witness == edges = 3 * Divisor /\ releases = {Divisor, 2 * Divisor, 3 * Divisor}

(* C6: ws_semaphore holds 0 or 1 permit in every state, however many        *)
(* releases were issued while the transfer loop was busy.                   *)
C6_BinarySignal == ws_semaphore \in 0..SemMaxPermits

\* two more releases were issued during one exchange; one permit is pending
C6_Witness ==
    /\ pc1 = "spi_exchange"
    /\ Cardinality(releases) = 3
    /\ ws_semaphore = 1

(* C7: midi_dev_addr changes only in the mount and unmount callbacks: a     *)
(* mount of X sets it to X if it is 0 and leaves it otherwise, an unmount   *)
(* of X sets it to 0 if it equals X and leaves it otherwise.                *)
C7_ConnectionState ==
    [][/\ (pc0 = "mount_cb" /\ pc0' # pc0) =>
            midi_dev_addr' = IF midi_dev_addr = 0 THEN cb_dev_addr
                                                  ELSE midi_dev_addr
       /\ (pc0 = "umount_cb" /\ pc0' # pc0) =>
            midi_dev_addr' = IF cb_dev_addr = midi_dev_addr THEN 0
                                                            ELSE midi_dev_addr
       /\ (midi_dev_addr' # midi_dev_addr) =>
            (pc0 \in {"mount_cb", "umount_cb"} /\ pc0' # pc0)]_vars

\* a mount of device 2 has run while device 1 is active, and 1 stays active
C7_Witness == pc0 = "mount_ret" /\ cb_dev_addr = 2 /\ midi_dev_addr = 1

(* C9: the note-on note is 0x5B advanced once per tick whose stream write   *)
(* returned non-zero, wrapping from 0x5F to 0x5B, and always within         *)
(* 0x5B..0x5F.                                                              *)
NoteRange == LastNote - FirstNote + 1

C9_NoteSequence ==
    /\ message[5] \in FirstNote..LastNote
    /\ message[5] = FirstNote + (nsent % NoteRange)

\* five successful ticks have returned the note-on note to 0x5B
C9_Witness == nsent = NoteRange /\ message[5] = FirstNote

(* C10: a tick whose stream write returns 0 leaves both note bytes (the     *)
(* whole message) as they were and advances start_ms by one interval, so    *)
(* the same message is written again at the next due time.                  *)
ZeroWriteTick == start_ms' # start_ms /\ nwritten' = 0

C11_EmissionSpacing ==
    [][(nsent' # nsent /\ last_emit >= 0) =>
         millis - last_emit >= IntervalMs]_vars

-----------------------------------------------------------------------------
(* The steps of each core, and where each core is *)

\* the steps core0 can take in its event loop (tuh_task and send_next_note)
Core0Loop ==
    \/ TuhTaskMount
    \/ MountCbRun
    \/ TuhTaskUmount
    \/ UmountCbRun
    \/ CbReturn
    \/ TuhTaskRx
    \/ TuhTaskReturn
    \/ RxCbEnter
    \/ RxCbIgnore
    \/ RxReadEmpty
    \/ RxReadChunk
    \/ RxLock
    \/ RxStoreLen
    \/ RxMemcpy
    \/ RxUnlock
    \/ SendNextNote

\* the steps core1 can take in its transfer loop
Core1Loop ==
    \/ Core1SemAcquire
    \/ Core1MutexEnter
    \/ Core1SpiExchange
    \/ Core1ResetLen
    \/ Core1MutexExit

\* core0 has reached while (1) of main()
InEventLoop0 ==
    pc0 \notin {"mutex_init", "launch_core1", "fifo_pop", "fifo_push"}

\* core1 has reached while (1) of core1_entry()
InTransferLoop1 ==
    pc1 \in {"sem_acquire", "mutex_enter", "spi_exchange", "reset_len",
             "mutex_exit"}

(* C12 as claimed: in its event loop core0 always has a step to take, it    *)
(* never waits on a synchronisation primitive.                             *)
C12_MainNeverBlocks == InEventLoop0 => ENABLED Core0Loop

(* C12 as amended: in its event loop core0 waits only at the               *)
(* mutex_enter_blocking of tuh_midi_rx_cb, and only while core1 is inside   *)
(* its data_mutex section; core1 in its transfer loop waits only for a      *)
(* permit of ws_semaphore or for data_mutex while core0 is inside its       *)
(* section.                                                                 *)
C12_MainWaitsOnlyForTransfer ==
    /\ (InEventLoop0 /\ ~ENABLED Core0Loop) =>
          (pc0 = "rx_lock" /\ data_mutex = "core1" /\ Holds1)
    /\ (InTransferLoop1 /\ ~ENABLED Core1Loop) =>
          \/ (pc1 = "sem_acquire" /\ ws_semaphore = 0)
          \/ (pc1 = "mutex_enter" /\ data_mutex = "core0" /\ Holds0)

\* the producer waits at mutex_enter_blocking while core1 resets the length
C12_Witness == pc0 = "rx_lock" /\ pc1 = "reset_len" /\ data_mutex = "core1"

(* C15: the exchanges completed, plus the one a consumed permit has yet to  *)
(* complete, plus the pending permit never exceed the releases issued,      *)
(* which are floor(edges / 32); no exchange is under way before edge 32.    *)
PermitInUse == IF pc1 \in {"mutex_enter", "spi_exchange"} THEN 1 ELSE 0

C15_OneTransferPerRelease ==
    /\ Cardinality(releases) = edges \div Divisor
    /\ xfers + PermitInUse + ws_semaphore <= Cardinality(releases)
    /\ (edges < Divisor => (xfers = 0 /\ ~Holds1 /\ pc1 # "mutex_enter"))

\* three exchanges done, each after its own release
C15_Witness == xfers = 3 /\ Cardinality(releases) = 3 /\ pc1 = "sem_acquire"

(* C16: once core1 is in its transfer loop out_buf[0..1] is 0xCA 0xFE, in   *)
(* particular when an exchange starts; the two bytes change only in the     *)
(* start-up step of core1 that writes them.                                 *)
FingerprintSet == out_buf[0] = Fingerprint0 /\ out_buf[1] = Fingerprint1

C16_FingerprintConstant ==
    [][/\ InTransferLoop1 => FingerprintSet
       /\ InTransferLoop1' => FingerprintSet'
       /\ (out_buf'[0] # out_buf[0] \/ out_buf'[1] # out_buf[1]) =>
            (pc1 = "fingerprint" /\ pc1' = "sem_acquire")]_vars

\* an exchange starts on a frame with the fingerprint and a payload
C16_Witness ==
    pc1 = "spi_exchange" /\ FingerprintSet /\ out_buf[2] = 2 /\ pending # <<>>

(* C17: out_buf[2] is within 0..max_payload (61) in every state.            *)
C17_LengthInRange == out_buf[2] \in 0..MaxPayload

\* an exchange starts on a frame that declares the maximal payload
C17_Witness == pc1 = "spi_exchange" /\ out_buf[2] = MaxPayload

(* C20: the steps of a transfer (exchange, length reset) leave every byte   *)
(* of the 64-byte frame but out_buf[2] as it was, and the reset sets        *)
(* out_buf[2] to 0; bytes of an earlier longer payload stay in the frame.   *)
TransferStep == pc1 \in {"spi_exchange", "reset_len"} /\ pc1' # pc1

C20_TransferFrameEffect ==
    [][TransferStep =>
         /\ DOMAIN out_buf' = 0..(SPI_BUFFER_LEN - 1)
         /\ \A i \in DOMAIN out_buf : i # 2 => out_buf'[i] = out_buf[i]
         /\ out_buf'[2] = IF pc1 = "reset_len" THEN 0 ELSE out_buf[2]]_vars

\* a 2-byte payload is about to be sent with the rest of a 48-byte one behind it
C20_Witness ==
    /\ pc1 = "spi_exchange"
    /\ out_buf[2] = 2
    /\ out_buf[HeaderLen + 2] = MkChunk(RxBufferLen, RxBufferLen)[3]
    /\ out_buf[HeaderLen + RxBufferLen - 1] =
          MkChunk(RxBufferLen, RxBufferLen)[RxBufferLen]

(* C19: the note-off note message[1] is the cyclic predecessor of the       *)
(* note-on note message[4] within 0x5B..0x5F, after any sequence of ticks.  *)
C19_NotePairing ==
    /\ message[2] \in FirstNote..LastNote
    /\ message[5] \in FirstNote..LastNote
    /\ message[5] = IF message[2] = LastNote THEN FirstNote ELSE message[2] + 1

\* four successful ticks, then one whose write returned 0
C19_Witness ==
    /\ nsent = 4
    /\ nwritten = 0
    /\ start_ms = 5 * IntervalMs
    /\ message[2] = LastNote - 1
    /\ message[5] = LastNote

(***************************************************************************)
(* C14: single-slot overwrite, last write wins.  When the producer stored  *)
(* a chunk P1 and then a chunk P2 with no exchange between the two stores, *)
(* the next exchange carries the length of P2 and the bytes of P2 in the   *)
(* first len(P2) payload positions; P1 is not carried by any exchange, it  *)
(* is only remembered as lost: the frame holds one chunk, not a queue.     *)
(***************************************************************************)
C14_LastWriteWins ==
    /\ lost # <<>> => pending # <<>>
    /\ (pc1 = "spi_exchange" /\ lost # <<>>) =>
          /\ out_buf[2] = Len(pending)
          /\ \A i \in 1..Len(pending) : out_buf[HeaderLen + i - 1] = pending[i]
          /\ lost # pending => (\/ out_buf[2] # Len(lost)
                                \/ \E i \in 1..Len(lost) :
                                      out_buf[HeaderLen + i - 1] # lost[i])

\* a 48-byte chunk was replaced by a 2-byte chunk and the exchange starts
C14_Witness ==
    /\ pc1 = "spi_exchange"
    /\ Len(lost) = RxBufferLen
    /\ Len(pending) = 2
    /\ out_buf[2] = 2

(***************************************************************************)
(* C13: progress without deadlock.  The transfer context waits for a       *)
(* release without holding data_mutex and the edge interrupt takes no      *)
(* lock; with the clock edges arriving and both cores running, a release   *)
(* is followed by the acquisition of its permit, an acquired permit by the *)
(* return to the wait for the next release (which the loop reaches only    *)
(* through the exchange and the reset), a producer waiting for data_mutex  *)
(* gets it, and the read loop of the receive callback comes to its end.    *)
(***************************************************************************)
C13_Progress ==
    /\ [][(pc1 = "sem_acquire" => data_mutex # "core1")
          /\ (irq_enabled => ENABLED WsEdge)]_vars
    /\ (ws_semaphore = 1) ~> (ws_semaphore = 0 /\ pc1 = "mutex_enter")
    /\ (pc1 = "mutex_enter") ~> (pc1 = "sem_acquire")
    /\ (pc0 = "rx_lock") ~> (pc0 = "rx_store_len" /\ data_mutex = "core0")
    /\ (pc0 = "rx_read") ~> (pc0 = "rx_ret")

\* the producer waits for data_mutex while the transfer context is about to
\* give it back, a release already waiting for the next round
C13_Witness ==
    /\ pc0 = "rx_lock"
    /\ pc1 = "mutex_exit"
    /\ data_mutex = "core1"
    /\ ws_semaphore = 1

(***************************************************************************)
(* C18: initialisation order, over every interleaving of the start-up of   *)
(* the two cores.  data_mutex is initialised before core1 is launched and  *)
(* so before any context enters or waits for it; ws_semaphore is           *)
(* initialised before the edge interrupt is enabled and so before any      *)
(* release or acquire; core0 enters its event loop only after it received  *)
(* 42 and sent 43, core1 goes past its pop only after core0 sent 43; the   *)
(* producer writes only from the event loop of core0 and an exchange runs  *)
(* only in the transfer loop of core1; with both cores running, both       *)
(* reach their loops and stay there.                                       *)
(***************************************************************************)
Core1PastHandshake ==
    pc1 \in {"sem_init", "irq_enable", "fingerprint"} \/ InTransferLoop1

C18_Order ==
    /\ (pc1 # "off" \/ InEventLoop0) => mutex_ready
    /\ (pc0 = "rx_lock" \/ pc1 = "mutex_enter" \/ data_mutex # "none") =>
          mutex_ready
    /\ (irq_enabled \/ ws_semaphore # 0 \/ InTransferLoop1) => sem_ready
    /\ ~irq_enabled => (ws_semaphore = 0 /\ div = Divisor)
    /\ InEventLoop0 =>
          /\ pc1 \notin {"off", "fifo_push"}
          /\ fifo0 = <<>>
          /\ (pc1 = "fifo_pop" <=> fifo1 = <<Core0Reply>>)
    /\ Core1PastHandshake => (InEventLoop0 /\ fifo1 = <<>>)
    /\ (Holds0 \/ pc0 = "rx_lock" \/ pending # <<>>) => InEventLoop0
    /\ (Holds1 \/ pc1 = "mutex_enter") => (InTransferLoop1 /\ InEventLoop0)

C18_InitOrder ==
    /\ []C18_Order
    /\ <>[](InEventLoop0 /\ InTransferLoop1)

\* after the handshake: the producer copies a chunk while the transfer
\* context, its permit taken, waits for data_mutex
C18_Witness ==
    /\ pc0 = "rx_memcpy"
    /\ pc1 = "mutex_enter"
    /\ mutex_ready
    /\ sem_ready
    /\ irq_enabled
    /\ fifo0 = <<>>
    /\ fifo1 = <<>>

====
